---- MODULE Spec2Model ----
(***************************************************************************)
(* Symmetry454 calendar (symmetric_calendar/date.py): the ordinal codec,   *)
(* the leap rule, the SymmetricDate value type built on them, and the      *)
(* SymmetricDateTime of symmetric_calendar/date_time.py.                   *)
(*                                                                         *)
(* Python integers are unbounded; every value used here stays far inside   *)
(* the 32-bit integers of the model checker.  Python's // and % are floor  *)
(* division and floor modulus, which is what \div and % are.               *)
(***************************************************************************)
EXTENDS Integers, Sequences, FiniteSets, TLC

VARIABLES
    inp,    \* codec: the arguments of the pure function under call
    out,    \* codec: what the called function returned or raised
    self,   \* the SymmetricDate object operated on (None before construction)
    ret,    \* the outcome of the last constructor or method call
    host,   \* which datetime implementation the interpreter loaded
    threads \* per thread: where it stands in a __hash__ call, and the outcome

vars == <<inp, out, self, ret, host, threads>>

(***************************************************************************)
(* Module constants, date.py:30-55                                         *)
(***************************************************************************)
MINYEAR == 1
MAXYEAR == 9998
MAXORDINAL == 3651690
EPOCH == 1
HOLOCENE_MAXYEAR == 19998
HOLOCENE_EPOCH == -3652424
POSIX_EPOCH == 719163

\* The Holocene year bias subtracted in _is_leap and _days_before_year.
HOLOCENE_OFFSET == 10000

\* CYCLE_MEAN_YEAR = 365 + 71/293 = 107016/293, kept as a fraction.
CYCLE_YEARS == 293
CYCLE_DAYS == 107016

\* DAYS_IN_MONTH[1..12]; the source's index 0 holds the placeholder -1.
DAYS_IN_MONTH == <<28, 35, 28, 28, 35, 28, 28, 35, 28, 28, 35, 28>>

\* DAYS_BEFORE_MONTH[1..12], built by the loop at date.py:58-62.
RECURSIVE SumDaysInMonth(_)
SumDaysInMonth(n) == IF n = 0 THEN 0 ELSE SumDaysInMonth(n - 1) + DAYS_IN_MONTH[n]

DAYS_BEFORE_MONTH == [m \in 1..12 |-> SumDaysInMonth(m - 1)]

(***************************************************************************)
(* Arithmetic helpers: math.floor(a / b) and math.ceil(a / b) for b > 0.   *)
(***************************************************************************)
FloorDiv(a, b) == a \div b

CeilDiv(a, b) == -((-a) \div b)

(***************************************************************************)
(* Pure functions of date.py                                               *)
(***************************************************************************)
\* Remainder that truncates toward zero (C-style %), for the mutants below.
TruncMod(a, b) == IF a >= 0 THEN a % b ELSE -((-a) % b)

\* Mutant of is_leap: truncating instead of floor modulus.
is_leap_truncating(year, holocene) ==
    LET y == IF holocene THEN year - HOLOCENE_OFFSET ELSE year
    IN  IF TruncMod((y * 52) + 146, CYCLE_YEARS) < 52 THEN 7 ELSE 0

\* _is_leap: 7 if leap year, else 0.
is_leap(year, holocene) ==
    LET y == IF holocene THEN year - HOLOCENE_OFFSET ELSE year
    IN  IF ((y * 52) + 146) % CYCLE_YEARS < 52 THEN 7 ELSE 0

\* Mutant of days_before_year: the Holocene bias is not removed.
days_before_year_no_bias(year, holocene) ==
    LET y == year - 1
    IN  (364 * y) + (7 * FloorDiv((52 * y) + 146, CYCLE_YEARS))

\* Mutant of days_before_year: 53 instead of 52 leap years per cycle.
days_before_year_53(year, holocene) ==
    LET y == IF holocene THEN (year - 1) - HOLOCENE_OFFSET ELSE year - 1
    IN  (364 * y) + (7 * FloorDiv((53 * y) + 146, CYCLE_YEARS))

\* _days_before_year
days_before_year(year, holocene) ==
    LET y == IF holocene THEN (year - 1) - HOLOCENE_OFFSET ELSE year - 1
    IN  (364 * y) + (7 * FloorDiv((52 * y) + 146, CYCLE_YEARS))

\* _days_in_month (callers guarantee 1 <= month <= 12)
days_in_month(year, month, holocene) ==
    IF month = 12 /\ is_leap(year, holocene) # 0 THEN 35 ELSE DAYS_IN_MONTH[month]

\* _days_before_month
days_before_month(month) == DAYS_BEFORE_MONTH[month]

\* _first_day_year: always computed in the default era (no holocene argument).
first_day_year(year) == days_before_year(year, FALSE) + 1

\* _ordinal_to_year: ceil((ordinal - EPOCH) / CYCLE_MEAN_YEAR) in binary
\* floating point.  The quotient is exact except where ordinal - EPOCH is a
\* multiple of the cycle length; of those, the only one in -3700000..3700000
\* on which the rounded quotient lands above the integer is -2889431.
FLOAT_SLIP_ORDINAL == -2889431

ordinal_to_year(ordinal_date) ==
    IF ordinal_date = FLOAT_SLIP_ORDINAL
    THEN CeilDiv((ordinal_date - EPOCH) * CYCLE_YEARS, CYCLE_DAYS) + 1
    ELSE CeilDiv((ordinal_date - EPOCH) * CYCLE_YEARS, CYCLE_DAYS)

\* Mutant of correct_year: the estimate is never moved to the next year.
correct_year_no_increment(ordinal_date, holocene) ==
    LET est == ordinal_to_year(ordinal_date)
        year == IF holocene THEN est + HOLOCENE_OFFSET ELSE est
        fdy == first_day_year(year)
    IN  IF fdy > ordinal_date
        THEN [year |-> year - 1, first_day_year |-> first_day_year(year - 1)]
        ELSE [year |-> year, first_day_year |-> fdy]

\* The year correction of _ordinal_to_year_month_day (date.py:138-170):
\* the corrected year and its first day.
correct_year(ordinal_date, holocene) ==
    LET est == ordinal_to_year(ordinal_date)
        year == IF holocene THEN est + HOLOCENE_OFFSET ELSE est
        fdy == first_day_year(year)
    IN  IF ordinal_date > fdy
        THEN IF ordinal_date - fdy >= 364 /\ ordinal_date >= first_day_year(year + 1)
             THEN [year |-> year + 1, first_day_year |-> first_day_year(year + 1)]
             ELSE [year |-> year, first_day_year |-> fdy]
        ELSE IF fdy > ordinal_date
             THEN [year |-> year - 1, first_day_year |-> first_day_year(year - 1)]
             ELSE [year |-> year, first_day_year |-> fdy]

\* _ordinal_to_year_month_day, date.py:172-188, one operator per assignment:
\* the month and the day from the quarter arithmetic.  exc is "" on return
\* and "AssertionError" when the assert of _days_before_month fails on the
\* derived month.
decode_result(year, day_in_year, week_in_year, month13, month) ==
    IF month \in 1..12
    THEN [exc |-> "", year |-> year, month |-> month,
          day |-> day_in_year - days_before_month(month),
          day_in_year |-> day_in_year, week_in_year |-> week_in_year,
          month13 |-> month13]
    ELSE [exc |-> "AssertionError", year |-> year, month |-> month,
          day |-> 0, day_in_year |-> day_in_year,
          week_in_year |-> week_in_year, month13 |-> month13]

\* Mutant of decode_month: the notional month 13 is kept.
decode_month_no_collapse(year, day_in_year, week_in_year, month13) ==
    decode_result(year, day_in_year, week_in_year, month13, month13)

\* "if month == 13: month = 12" (date.py:183-184)
decode_month(year, day_in_year, week_in_year, month13) ==
    decode_result(year, day_in_year, week_in_year, month13,
                  IF month13 = 13 THEN 12 ELSE month13)

\* week_in_quarter, month_in_quarter, month (date.py:176-178)
decode_week_in_quarter(year, day_in_year, week_in_year, quarter, week_in_quarter) ==
    decode_month(year, day_in_year, week_in_year,
                 (3 * (quarter - 1)) + CeilDiv(2 * week_in_quarter, 9))

\* quarter, day_in_quarter (date.py:174-175)
decode_quarter(year, day_in_year, week_in_year, quarter) ==
    decode_week_in_quarter(year, day_in_year, week_in_year, quarter,
                           CeilDiv(day_in_year - (91 * (quarter - 1)), 7))

\* week_in_year (date.py:173)
decode_week(year, day_in_year, week_in_year) ==
    decode_quarter(year, day_in_year, week_in_year, CeilDiv(4 * week_in_year, 53))

\* day_in_year (date.py:172)
decode_day_in_year(year, day_in_year) ==
    decode_week(year, day_in_year, CeilDiv(day_in_year, 7))

decode_year(cy, ordinal_date) ==
    decode_day_in_year(cy.year, ordinal_date - cy.first_day_year + 1)

\* _ordinal_to_year_month_day
ordinal_to_year_month_day(ordinal_date, holocene) ==
    decode_year(correct_year(ordinal_date, holocene), ordinal_date)

\* Mutant of year_month_day_to_ordinal: a zero-based day count.
year_month_day_to_ordinal_zero_based(year, month, day, holocene) ==
    IF ~(1 <= month /\ month <= 12)
    THEN [exc |-> "AssertionError", ordinal_date |-> 0]
    ELSE IF ~(1 <= day /\ day <= days_in_month(year, month, holocene))
    THEN [exc |-> "AssertionError", ordinal_date |-> 0]
    ELSE [exc |-> "",
          ordinal_date |-> days_before_year(year, holocene)
                           + days_before_month(month) + day - 1]

\* _year_month_day_to_ordinal.  exc is "AssertionError" when one of its two
\* asserts fails.
year_month_day_to_ordinal(year, month, day, holocene) ==
    IF ~(1 <= month /\ month <= 12)
    THEN [exc |-> "AssertionError", ordinal_date |-> 0]
    ELSE IF ~(1 <= day /\ day <= days_in_month(year, month, holocene))
    THEN [exc |-> "AssertionError", ordinal_date |-> 0]
    ELSE [exc |-> "",
          ordinal_date |-> days_before_year(year, holocene)
                           + days_before_month(month) + day]

\* Mutant of check_date_fields: the day is checked against the month table
\* alone, without the leap week.
check_date_fields_no_leap_week(year, month, day, holocene) ==
    IF holocene /\ ~(MINYEAR <= year /\ year <= HOLOCENE_MAXYEAR) THEN "ValueError"
    ELSE IF ~holocene /\ ~(MINYEAR <= year /\ year <= MAXYEAR) THEN "ValueError"
    ELSE IF ~(1 <= month /\ month <= 12) THEN "ValueError"
    ELSE IF ~(1 <= day /\ day <= DAYS_IN_MONTH[month]) THEN "ValueError"
    ELSE ""

\* Mutant of check_date_fields: the year is not checked.
check_date_fields_any_year(year, month, day, holocene) ==
    IF ~(1 <= month /\ month <= 12) THEN "ValueError"
    ELSE IF ~(1 <= day /\ day <= days_in_month(year, month, holocene))
    THEN "ValueError"
    ELSE ""

\* _check_date_fields: "" or the exception it raises.
check_date_fields(year, month, day, holocene) ==
    IF holocene /\ ~(MINYEAR <= year /\ year <= HOLOCENE_MAXYEAR) THEN "ValueError"
    ELSE IF ~holocene /\ ~(MINYEAR <= year /\ year <= MAXYEAR) THEN "ValueError"
    ELSE IF ~(1 <= month /\ month <= 12) THEN "ValueError"
    ELSE IF ~(1 <= day /\ day <= days_in_month(year, month, holocene))
    THEN "ValueError"
    ELSE ""

(***************************************************************************)
(* Codec specification: the pure functions applied to bounded inputs.      *)
(***************************************************************************)
\* Half-width of the windows of raw years fed to the year-level functions.
YearSpan == 600
\* Half-width of the windows of years fed to the field-level functions.
FieldYearSpan == 1
\* Half-width of the windows of ordinals around the first day of a year.
OrdSpan == 380

Window(c, w) == (c - w)..(c + w)

\* Raw years for _is_leap / _days_before_year, in both eras: more than two
\* full cycles around zero and around the Holocene bias, and the era maxima.
YearInputs ==
    Window(0, YearSpan) \cup Window(HOLOCENE_OFFSET, YearSpan)
    \cup Window(MAXYEAR, FieldYearSpan) \cup Window(HOLOCENE_MAXYEAR, FieldYearSpan)

\* Years whose neighbourhoods the field-level inputs are drawn from: the era
\* bounds, cycle starts, the documented sample years (date.py:702-780).
AnchorYears == {1, 294, 1970, 2004, 3333, 9998}

FieldYears(holocene) ==
    IF holocene
    THEN UNION {Window(a, FieldYearSpan) : a \in {1, HOLOCENE_OFFSET}}
         \cup UNION {Window(a + HOLOCENE_OFFSET, FieldYearSpan) : a \in AnchorYears}
    ELSE UNION {Window(a, FieldYearSpan) : a \in AnchorYears}

\* Ordinals around the first and last days of the anchor years, reaching below
\* 1 and above MAXORDINAL.
OrdinalInputs ==
    UNION {Window(first_day_year(a), OrdSpan) : a \in AnchorYears \cup {9999}}

NoOut == [fn |-> "none"]
None == [is_date |-> FALSE]
NoRet == [op |-> "none"]

\* The threads that call hash() on the one date, and how many calls each
\* makes.
NumThreads == 2
MaxCalls == 2
Threads == 1..NumThreads

\* A thread outside any call that has made no call yet.
IdleThread ==
    [pc |-> "idle", calls |-> 0, local |-> 0, exc |-> "", value |-> 0]
NoThreads == [t \in Threads |-> IdleThread]

CodecInputs ==
    [kind : {"year"}, year : YearInputs, holocene : BOOLEAN]
    \cup UNION {[kind : {"ymd"}, year : FieldYears(h), month : 1..12,
                 day : 1..35, holocene : {h}] : h \in BOOLEAN}
    \cup [kind : {"ord"}, ordinal_date : OrdinalInputs, holocene : BOOLEAN]

InitCodec ==
    /\ inp \in CodecInputs
    /\ out = NoOut
    /\ self = None
    /\ ret = NoRet
    /\ host = "c"
    /\ threads = NoThreads

RECURSIVE SumMonths(_, _, _)
SumMonths(year, holocene, n) ==
    IF n = 0 THEN 0
    ELSE SumMonths(year, holocene, n - 1) + days_in_month(year, n, holocene)

LeapYearsFrom(year, holocene) ==
    Cardinality({y \in year..(year + CYCLE_YEARS - 1) : is_leap(y, holocene) # 0})

\* _is_leap, _days_before_year of a year and of the next, _days_in_month of
\* its twelve months.
YearLength ==
    /\ inp.kind = "year" /\ out.fn = "none"
    /\ out' = [fn |-> "year_length",
               is_leap |-> is_leap(inp.year, inp.holocene),
               days_before_year |-> days_before_year(inp.year, inp.holocene),
               days_before_next |-> days_before_year(inp.year + 1, inp.holocene),
               month_days |-> SumMonths(inp.year, inp.holocene, 12)]
    /\ UNCHANGED <<inp, self, ret, host, threads>>

\* The same functions one cycle of 293 years later.
LeapCycle ==
    /\ inp.kind = "year" /\ out.fn = "none"
    /\ out' = [fn |-> "leap_cycle",
               is_leap |-> is_leap(inp.year, inp.holocene),
               is_leap_cycle |-> is_leap(inp.year + CYCLE_YEARS, inp.holocene),
               days_before_year |-> days_before_year(inp.year, inp.holocene),
               days_before_cycle |->
                   days_before_year(inp.year + CYCLE_YEARS, inp.holocene),
               leap_years |-> LeapYearsFrom(inp.year, inp.holocene),
               leap_years_next |-> LeapYearsFrom(inp.year + 1, inp.holocene)]
    /\ UNCHANGED <<inp, self, ret, host, threads>>

\* _year_month_day_to_ordinal
Encode ==
    /\ inp.kind = "ymd" /\ out.fn = "none"
    /\ LET e == year_month_day_to_ordinal(inp.year, inp.month, inp.day, inp.holocene)
       IN  out' = [fn |-> "encode", exc |-> e.exc, ordinal_date |-> e.ordinal_date,
                   is_leap |-> is_leap(inp.year, inp.holocene),
                   days_in_month |-> days_in_month(inp.year, inp.month, inp.holocene)]
    /\ UNCHANGED <<inp, self, ret, host, threads>>

\* _ordinal_to_year_month_day
Decode ==
    /\ inp.kind = "ord" /\ out.fn = "none"
    /\ LET d == ordinal_to_year_month_day(inp.ordinal_date, inp.holocene)
       IN  out' = [fn |-> "decode", exc |-> d.exc, year |-> d.year,
                   month |-> d.month, day |-> d.day,
                   day_in_year |-> d.day_in_year,
                   week_in_year |-> d.week_in_year, month13 |-> d.month13]
    /\ UNCHANGED <<inp, self, ret, host, threads>>

\* What SymmetricDate.fromordinal -> __new__ does with the triple that
\* _ordinal_to_year_month_day returned: _check_date_fields, whose ValueError
\* ends the call, and then _year_month_day_to_ordinal.
EncodeDecoded ==
    /\ out.fn = "decode" /\ out.exc = ""
    /\ LET chk == check_date_fields(out.year, out.month, out.day, inp.holocene)
           e == year_month_day_to_ordinal(out.year, out.month, out.day, inp.holocene)
       IN  out' = [fn |-> "reencode",
                   exc |-> IF chk # "" THEN chk ELSE e.exc,
                   year |-> out.year, month |-> out.month, day |-> out.day,
                   ordinal_date |-> IF chk # "" THEN 0 ELSE e.ordinal_date]
    /\ UNCHANGED <<inp, self, ret, host, threads>>

NextCodec == YearLength \/ LeapCycle \/ Encode \/ Decode \/ EncodeDecoded

SpecCodec == InitCodec /\ [][NextCodec]_vars

(***************************************************************************)
(* Properties of the codec                                                 *)
(***************************************************************************)
DefaultOrdinalInput ==
    /\ inp.kind = "ord" /\ ~inp.holocene
    /\ inp.ordinal_date \in EPOCH..MAXORDINAL

\* C1: in the default era every ordinal in 1..MAXORDINAL decodes to a valid
\* (year, month, day) -- year in 1..9998, month in 1..12, day in
\* 1..days_in_month -- and encoding that triple gives the ordinal back.
C1_RoundTrip ==
    DefaultOrdinalInput =>
        /\ out.fn = "decode" =>
              /\ out.exc = ""
              /\ out.year \in MINYEAR..MAXYEAR
              /\ out.month \in 1..12
              /\ out.day \in 1..days_in_month(out.year, out.month, FALSE)
        /\ out.fn = "reencode" =>
              /\ out.exc = ""
              /\ out.ordinal_date = inp.ordinal_date

\* An ordinal inside a leap week (December 35th) decoded and encoded again.
C1_Witness ==
    /\ DefaultOrdinalInput
    /\ out.fn = "reencode"
    /\ out.month = 12 /\ out.day = 35

\* C2: for every year, negative and zero included, the distance between the
\* starts of year y and year y+1 is 364 or 371 days, is 371 exactly in a leap
\* year, and is the sum of the lengths of the twelve months of y.
C2_YearLength ==
    out.fn = "year_length" =>
        LET length == out.days_before_next - out.days_before_year
        IN  /\ length \in {364, 371}
            /\ (length = 371) <=> (out.is_leap # 0)
            /\ length = out.month_days

\* A leap year before year 1 of the default era.
C2_Witness ==
    /\ out.fn = "year_length"
    /\ ~inp.holocene /\ inp.year < 0
    /\ out.is_leap # 0
    /\ out.days_before_next - out.days_before_year = 371

\* C3: the leap rule has period 293: is_leap(y + 293) = is_leap(y), the window
\* of 293 years starting at y holds as many leap years as the one starting at
\* y + 1, and 293 years span 293 * 365 + 71 = 107016 days (364 days a year
\* plus 7 for each leap year of the window).
C3_LeapPeriodicity ==
    out.fn = "leap_cycle" =>
        /\ out.is_leap_cycle = out.is_leap
        /\ out.leap_years = out.leap_years_next
        /\ out.days_before_cycle - out.days_before_year = (CYCLE_YEARS * 365) + 71
        /\ (CYCLE_YEARS * 365) + 71 = CYCLE_DAYS
        /\ (CYCLE_YEARS * 364) + (7 * out.leap_years) = CYCLE_DAYS

\* A window that starts in a negative leap year.
C3_Witness ==
    /\ out.fn = "leap_cycle"
    /\ inp.year < -CYCLE_YEARS
    /\ out.is_leap # 0 /\ out.is_leap_cycle # 0

IsInput(year, month, day, holocene) ==
    /\ inp.kind = "ymd"
    /\ inp.year = year /\ inp.month = month /\ inp.day = day
    /\ inp.holocene = holocene

\* C4: the boundary literals.  (1,1,1) encodes to 1 = EPOCH; (9998,12,28)
\* encodes to 3651690 = MAXORDINAL and is the last day of its year; ordinal 1
\* decodes to (1,1,1); (1970,1,4) encodes to 719163 = POSIX_EPOCH; Holocene
\* (1,1,1) encodes to -3652424 = HOLOCENE_EPOCH.
C4_BoundaryLiterals ==
    /\ (out.fn = "encode" /\ IsInput(1, 1, 1, FALSE)) =>
          (out.exc = "" /\ out.ordinal_date = 1 /\ out.ordinal_date = EPOCH)
    /\ (out.fn = "encode" /\ IsInput(9998, 12, 28, FALSE)) =>
          /\ out.exc = ""
          /\ out.ordinal_date = 3651690 /\ out.ordinal_date = MAXORDINAL
          /\ out.days_in_month = 28
          /\ days_before_year(9999, FALSE) = out.ordinal_date
    /\ (out.fn = "decode" /\ inp.kind = "ord" /\ ~inp.holocene
          /\ inp.ordinal_date = 1) =>
          (out.exc = "" /\ <<out.year, out.month, out.day>> = <<1, 1, 1>>)
    /\ (out.fn = "encode" /\ IsInput(1970, 1, 4, FALSE)) =>
          (out.exc = "" /\ out.ordinal_date = 719163
             /\ out.ordinal_date = POSIX_EPOCH)
    /\ (out.fn = "encode" /\ IsInput(1, 1, 1, TRUE)) =>
          (out.exc = "" /\ out.ordinal_date = -3652424
             /\ out.ordinal_date = HOLOCENE_EPOCH)

\* The last day of the default era, encoded.
C4_Witness ==
    /\ out.fn = "encode" /\ IsInput(9998, 12, 28, FALSE)
    /\ out.ordinal_date = MAXORDINAL

\* C9: a valid default-era date (y, m, d) has a valid Holocene twin
\* (y + 10000, m, d) with the same leap flag, the same month length and the
\* same ordinal; Holocene years 1..10000 are era-relative years -9999..0 and
\* their dates have ordinals <= 0.
C9_EraAlignment ==
    (out.fn = "encode" /\ out.exc = "") =>
        /\ (~inp.holocene /\ inp.year \in MINYEAR..MAXYEAR) =>
              LET hy == inp.year + HOLOCENE_OFFSET
                  twin == year_month_day_to_ordinal(hy, inp.month, inp.day, TRUE)
              IN  /\ hy \in MINYEAR..HOLOCENE_MAXYEAR
                  /\ is_leap(hy, TRUE) = out.is_leap
                  /\ days_in_month(hy, inp.month, TRUE) = out.days_in_month
                  /\ twin.exc = ""
                  /\ twin.ordinal_date = out.ordinal_date
        /\ (inp.holocene /\ inp.year \in 1..HOLOCENE_OFFSET) =>
              /\ inp.year - HOLOCENE_OFFSET \in -9999..0
              /\ out.ordinal_date <= 0
        /\ (inp.holocene /\ inp.year > HOLOCENE_OFFSET) => out.ordinal_date >= 1

\* A leap-week day of the default era, encoded.
C9_Witness ==
    /\ out.fn = "encode" /\ out.exc = ""
    /\ IsInput(2004, 12, 33, FALSE)
    /\ out.is_leap # 0

\* The year estimate as the data model states it:
\* ceil((o - EPOCH) / (365 + 71/293)).
MeanYearEstimate(o) == CeilDiv((o - EPOCH) * 293, 365 * 293 + 71)

\* C15: for an ordinal o of the default era the mean-year estimate is within
\* one year of the year decoded, and the year decoded holds o between its
\* first day and the first day of the next year; so the day of the year is
\* o less the first day plus one and lies in 1..364, or 1..371 in a leap
\* year; the week is its seventh rounded up and lies in 1..52, or 1..53; the
\* month computed is 13 exactly for the days 365..371 of the year and is then
\* returned as 12, and is returned as computed, within 1..12, otherwise; and
\* the day is the day of the year less the days before the month and lies in
\* 1..days_in_month.
C15_DecodeCorrection ==
    (DefaultOrdinalInput /\ out.fn = "decode") =>
        /\ out.exc = ""
        /\ MeanYearEstimate(inp.ordinal_date) - out.year \in -1..1
        /\ first_day_year(out.year) <= inp.ordinal_date
        /\ inp.ordinal_date < first_day_year(out.year + 1)
        /\ out.day_in_year = inp.ordinal_date - first_day_year(out.year) + 1
        /\ out.day_in_year
             \in 1..(IF is_leap(out.year, FALSE) # 0 THEN 371 ELSE 364)
        /\ out.week_in_year = CeilDiv(out.day_in_year, 7)
        /\ out.week_in_year
             \in 1..(IF is_leap(out.year, FALSE) # 0 THEN 53 ELSE 52)
        /\ (out.month13 = 13) <=> (out.day_in_year \in 365..371)
        /\ out.month = (IF out.month13 = 13 THEN 12 ELSE out.month13)
        /\ out.month \in 1..12
        /\ out.day = out.day_in_year - days_before_month(out.month)
        /\ out.day \in 1..days_in_month(out.year, out.month, FALSE)

\* A day of a leap week decoded: the estimate was the year after, and the
\* month computed was 13.
C15_Witness ==
    /\ DefaultOrdinalInput /\ out.fn = "decode" /\ out.exc = ""
    /\ out.year = MeanYearEstimate(inp.ordinal_date) - 1
    /\ out.month13 = 13 /\ out.month = 12 /\ out.day = 35

(***************************************************************************)
(* SymmetricDate objects                                                   *)
(***************************************************************************)
\* The sentinel of an unset hash memo (date.py:238, 622).
HASH_UNSET == -1
\* First Holocene year that has a host date (date.py:245).
HOLOCENE_HOST_MINYEAR == 10001
\* A host datetime.date is identified by its proleptic Gregorian ordinal,
\* 1..date.max.toordinal(); 0 stands for the None of date.py:248.
GREGORIAN_NONE == 0
HOST_MAXORDINAL == 3652059

Raise(exc) == [exc |-> exc, value |-> None]
Return(value) == [exc |-> "", value |-> value]

\* datetime.date.fromordinal of the host library.
host_fromordinal(n) ==
    IF 1 <= n /\ n <= HOST_MAXORDINAL THEN [exc |-> "", date |-> n]
    ELSE [exc |-> "ValueError", date |-> GREGORIAN_NONE]

\* SymmetricDate.__new__ with integer fields (date.py:231-250).
new(year, month, day, holocene) ==
    LET chk == check_date_fields(year, month, day, holocene)
        enc == year_month_day_to_ordinal(year, month, day, holocene)
        mapped == ~holocene \/ year >= HOLOCENE_HOST_MINYEAR
        g == host_fromordinal(enc.ordinal_date)
    IN  IF chk # "" THEN Raise(chk)
        ELSE IF enc.exc # "" THEN Raise(enc.exc)
        ELSE IF mapped /\ g.exc # "" THEN Raise(g.exc)
        ELSE Return([is_date |-> TRUE,
                     year |-> year, month |-> month, day |-> day,
                     ordinal_date |-> enc.ordinal_date,
                     hashcode |-> HASH_UNSET,
                     holocene |-> holocene,
                     is_leap |-> is_leap(year, holocene),
                     gregorian_date |-> IF mapped THEN g.date ELSE GREGORIAN_NONE])

\* SymmetricDate.fromordinal
fromordinal(ordinal_date, holocene) ==
    LET d == ordinal_to_year_month_day(ordinal_date, holocene)
    IN  IF d.exc # "" THEN Raise(d.exc)
        ELSE new(d.year, d.month, d.day, holocene)

\* SymmetricDate.toordinal
toordinal(date) == date.ordinal_date

\* SymmetricDate.__new__ given a date: cls.fromordinal(year.toordinal(), holocene)
new_from_date(date, holocene) == fromordinal(toordinal(date), holocene)

\* SymmetricDate._cmp
cmp(a, b) ==
    IF toordinal(a) = toordinal(b) THEN 0
    ELSE IF toordinal(a) > toordinal(b) THEN 1
    ELSE -1

\* __eq__, __le__, __lt__, __ge__, __gt__ against another SymmetricDate.
rich_compare(operator, a, b) ==
    CASE operator = "eq" -> cmp(a, b) = 0
      [] operator = "le" -> cmp(a, b) <= 0
      [] operator = "lt" -> cmp(a, b) < 0
      [] operator = "ge" -> cmp(a, b) >= 0
      [] operator = "gt" -> cmp(a, b) > 0

\* Mutant of gregorian_date: the stored value is handed out unchecked.
gregorian_date_unguarded(date) == [exc |-> "", date |-> date.gregorian_date]

\* The gregorian_date property.
gregorian_date(date) ==
    IF date.gregorian_date # GREGORIAN_NONE
    THEN [exc |-> "", date |-> date.gregorian_date]
    ELSE [exc |-> "ValueError", date |-> GREGORIAN_NONE]

\* The public members that go to the host date: the gregorian_date property
\* itself and the methods and properties that call a member of what it returns.
DelegatingMembers ==
    {"gregorian_date", "ctime", "timetuple", "isocalendar",
     "gregorian_year", "gregorian_month", "gregorian_day"}

\* self.gregorian_date.<member>: the property is evaluated first and its
\* exception leaves the call; otherwise the member of the host date (or of
\* None, which has none of them) is taken.  The value of a host member is
\* represented by the member's name and the host date it was taken from.
delegate(date, member) ==
    LET g == gregorian_date(date)
    IN  IF g.exc # ""
        THEN [exc |-> g.exc, reached_host |-> FALSE,
              value |-> [member |-> member, host_date |-> GREGORIAN_NONE]]
        ELSE IF member # "gregorian_date" /\ g.date = GREGORIAN_NONE
        THEN [exc |-> "AttributeError", reached_host |-> TRUE,
              value |-> [member |-> member, host_date |-> GREGORIAN_NONE]]
        ELSE [exc |-> "", reached_host |-> TRUE,
              value |-> [member |-> member, host_date |-> g.date]]

\* hash() of the host date's pickle state.  The state holds the Gregorian
\* year, month and day, so it is one-to-one with the host ordinal; the hash
\* is a fixed function of it within a process and is never -1.  It is
\* represented by the host ordinal it was computed from.
host_state_hash(g) == g

\* SymmetricDate._getstate followed by hash(): the host's C date type has no
\* _getstate attribute, the pure-Python one has.
hash_getstate(date, impl) ==
    LET g == gregorian_date(date)
    IN  IF g.exc # "" THEN [exc |-> g.exc, value |-> 0]
        ELSE IF impl = "c" THEN [exc |-> "AttributeError", value |-> 0]
        ELSE [exc |-> "", value |-> host_state_hash(g.date)]

\* SymmetricDate.__hash__: the result and the memo it leaves behind.
hash(date, impl) ==
    IF date.hashcode = HASH_UNSET
    THEN LET h == hash_getstate(date, impl)
         IN  IF h.exc # ""
             THEN [exc |-> h.exc, value |-> 0, hashcode |-> date.hashcode]
             ELSE [exc |-> "", value |-> h.value, hashcode |-> h.value]
    ELSE [exc |-> "", value |-> date.hashcode, hashcode |-> date.hashcode]

\* Whether the global name timedelta is bound in date.py: the module imports
\* time, math, datetime (as _datetime) and locale, and nothing else.
timedelta_is_bound == FALSE

\* SymmetricDate.__add__ with a timedelta of the given number of days.
add(date, days) ==
    IF ~timedelta_is_bound THEN Raise("NameError")
    ELSE LET o == toordinal(date) + days
         IN  IF 0 < o /\ o <= MAXORDINAL THEN fromordinal(o, FALSE)
             ELSE Raise("OverflowError")

\* SymmetricDate.__sub__ with a timedelta of the given number of days.
sub(date, days) ==
    IF ~timedelta_is_bound THEN Raise("NameError")
    ELSE add(date, -days)

\* SymmetricDate.weekday
weekday(date) == date.ordinal_date % 7

\* SymmetricDate.isoweekday
isoweekday(date) ==
    IF date.ordinal_date % 7 = 0 THEN 7 ELSE weekday(date)

\* An optional argument: left at its default None, or given.
Absent == [given |-> FALSE]
Given(v) == [given |-> TRUE, v |-> v]

\* Mutant of replace: the receiver takes the new fields itself.
replace_in_place(date, year, month, day) ==
    LET r == new(IF year.given THEN year.v ELSE date.year,
                 IF month.given THEN month.v ELSE date.month,
                 IF day.given THEN day.v ELSE date.day,
                 date.holocene)
    IN  [exc |-> r.exc, value |-> r.value,
         self |-> IF r.exc = "" THEN r.value ELSE date]

\* SymmetricDate.replace: the result, and the receiver after the call.
replace(date, year, month, day) ==
    LET r == new(IF year.given THEN year.v ELSE date.year,
                 IF month.given THEN month.v ELSE date.month,
                 IF day.given THEN day.v ELSE date.day,
                 date.holocene)
    IN  [exc |-> r.exc, value |-> r.value, self |-> date]


(***************************************************************************)
(* Object specification: one SymmetricDate is constructed, then its        *)
(* methods are called in any order.                                        *)
(***************************************************************************)
\* Days offered to the constructor lie within DayEdge of the first day of a
\* month and of the last day of a 28-day and of a 35-day month.
DayEdge == 2
\* Day counts offered to __add__ / __sub__ are -AddSpan..AddSpan.
AddSpan == 2
\* Half-width of the windows of ordinals offered to fromordinal.
ObjectOrdSpan == 10

\* Years offered to the constructor: the era bounds and one year beyond
\* them, a leap year and the common year after it, and in the Holocene era
\* the last year without a host date and the first with one.
ObjectYears(holocene) ==
    IF holocene
    THEN {MINYEAR - 1, MINYEAR, HOLOCENE_OFFSET, HOLOCENE_HOST_MINYEAR,
          12004, 12005, HOLOCENE_MAXYEAR, HOLOCENE_MAXYEAR + 1}
    ELSE {MINYEAR - 1, MINYEAR, 2004, 2005, MAXYEAR, MAXYEAR + 1}

\* Months offered to the constructor: a 28-day month, a 35-day month,
\* December, and the two neighbours of 1..12.
MonthInputs == {0, 1, 2, 12, 13}

DayInputs == Window(1, DayEdge) \cup Window(28, DayEdge) \cup Window(35, DayEdge)

\* Ordinals offered to fromordinal: around both ends of the default era,
\* around a leap week, and around the first Holocene day.
ObjectOrdinals ==
    Window(EPOCH, ObjectOrdSpan) \cup Window(MAXORDINAL, ObjectOrdSpan)
    \cup Window(first_day_year(2005), ObjectOrdSpan)
    \cup Window(HOLOCENE_EPOCH, ObjectOrdSpan)

Operators == {"eq", "le", "lt", "ge", "gt"}

\* The dates a constructed date is compared with: the same fields and the
\* neighbouring days, in its own era and as the twin of the other era.
Others(date) ==
    LET twin == IF date.holocene THEN date.year - HOLOCENE_OFFSET
                ELSE date.year + HOLOCENE_OFFSET
        made == {new(date.year, date.month, date.day + k, date.holocene)
                     : k \in -1..1}
                \cup {new(twin, date.month, date.day + k, ~date.holocene)
                     : k \in -1..1}
    IN  {r.value : r \in {m \in made : m.exc = ""}}

Init ==
    /\ inp = [kind |-> "none"]
    /\ out = NoOut
    /\ self = None
    /\ ret = NoRet
    /\ host \in {"c", "py"}
    /\ threads = NoThreads

\* SymmetricDate(year, month, day, holocene=...)
New ==
    /\ ret.op = "none"
    /\ \E holocene \in BOOLEAN :
       \E year \in ObjectYears(holocene), month \in MonthInputs, day \in DayInputs :
         LET r == new(year, month, day, holocene)
         IN  /\ self' = r.value
             /\ ret' = [op |-> "new", year |-> year, month |-> month,
                        day |-> day, holocene |-> holocene,
                        exc |-> r.exc, value |-> r.value]
    /\ UNCHANGED <<inp, out, host, threads>>

\* SymmetricDate.fromordinal(ordinal_date, holocene=...)
FromOrdinal ==
    /\ ret.op = "none"
    /\ \E holocene \in BOOLEAN, ordinal_date \in ObjectOrdinals :
         LET r == fromordinal(ordinal_date, holocene)
         IN  /\ self' = r.value
             /\ ret' = [op |-> "fromordinal", ordinal_date |-> ordinal_date,
                        holocene |-> holocene, exc |-> r.exc, value |-> r.value]
    /\ UNCHANGED <<inp, out, host, threads>>

\* SymmetricDate(self, holocene=...): conversion to an era.
Convert ==
    /\ self.is_date
    /\ \E holocene \in BOOLEAN :
         LET r == new_from_date(self, holocene)
         IN  ret' = [op |-> "convert", holocene |-> holocene,
                     exc |-> r.exc, value |-> r.value]
    /\ UNCHANGED <<inp, out, self, host, threads>>

\* self + timedelta(days)
Add ==
    /\ self.is_date
    /\ \E days \in -AddSpan..AddSpan :
         LET r == add(self, days)
         IN  ret' = [op |-> "add", days |-> days, exc |-> r.exc, value |-> r.value]
    /\ UNCHANGED <<inp, out, self, host, threads>>

\* self - timedelta(days)
Sub ==
    /\ self.is_date
    /\ \E days \in -AddSpan..AddSpan :
         LET r == sub(self, days)
         IN  ret' = [op |-> "sub", days |-> days, exc |-> r.exc, value |-> r.value]
    /\ UNCHANGED <<inp, out, self, host, threads>>

\* self == other, self <= other, self < other, self >= other, self > other
Compare ==
    /\ self.is_date
    /\ \E operator \in Operators, other \in Others(self) :
         ret' = [op |-> "compare", operator |-> operator, other |-> other,
                 exc |-> "", result |-> rich_compare(operator, self, other)]
    /\ UNCHANGED <<inp, out, self, host, threads>>

\* hash(self)
Hash ==
    /\ self.is_date
    /\ LET h == hash(self, host)
       IN  /\ self' = [self EXCEPT !.hashcode = h.hashcode]
           /\ ret' = [op |-> "hash", exc |-> h.exc, value |-> h.value]
    /\ UNCHANGED <<inp, out, host, threads>>

\* self.replace(year=..., month=..., day=...).  The year offered is the next
\* year or the year after the last of the default era (a year of the Holocene
\* era), the month February or 13, the day the 29th.
Replace ==
    /\ self.is_date
    /\ \E year \in {Absent, Given(self.year + 1), Given(MAXYEAR + 1)},
          month \in {Absent, Given(2), Given(13)},
          day \in {Absent, Given(29)} :
         LET r == replace(self, year, month, day)
         IN  /\ self' = r.self
             /\ ret' = [op |-> "replace", year |-> year, month |-> month,
                        day |-> day, exc |-> r.exc, value |-> r.value]
    /\ UNCHANGED <<inp, out, host, threads>>

\* self.gregorian_date, self.ctime(), self.timetuple(), self.isocalendar(),
\* self.gregorian_year, self.gregorian_month, self.gregorian_day
Delegate ==
    /\ self.is_date
    /\ \E member \in DelegatingMembers :
         LET r == delegate(self, member)
         IN  ret' = [op |-> "delegate", member |-> member, exc |-> r.exc,
                     reached_host |-> r.reached_host, value |-> r.value]
    /\ UNCHANGED <<inp, out, self, host, threads>>

\* self.weekday(), self.isoweekday()
Weekday ==
    /\ self.is_date
    /\ \E method \in {"weekday", "isoweekday"} :
         ret' = [op |-> "weekday", method |-> method, exc |-> "",
                 value |-> IF method = "weekday" THEN weekday(self)
                           ELSE isoweekday(self)]
    /\ UNCHANGED <<inp, out, self, host, threads>>

Next == New \/ FromOrdinal \/ Convert \/ Add \/ Sub \/ Compare \/ Hash
        \/ Replace \/ Delegate \/ Weekday

Spec == Init /\ [][Next]_vars

(***************************************************************************)
(* Thread specification: a constructed SymmetricDate is shared by threads  *)
(* that call hash() on it.  A thread may be switched out between any two   *)
(* statements of __hash__, so the test of the memo, the computation, the   *)
(* assignment of the memo and the return are steps of their own.           *)
(***************************************************************************)
\* The dates shared: a leap-week day of the default era, and in the Holocene
\* era a date with a host date and one without.
SharedDates ==
    {r.value : r \in {new(2004, 12, 33, FALSE), new(MAXYEAR, 12, 28, FALSE),
                      new(12004, 12, 33, TRUE), new(HOLOCENE_OFFSET, 1, 1, TRUE)}}

InitThreads ==
    /\ inp = [kind |-> "none"]
    /\ out = NoOut
    /\ self \in SharedDates
    /\ ret = [op |-> "new", exc |-> "", value |-> self]
    /\ host \in {"c", "py"}
    /\ threads = NoThreads

\* hash(self) is called: "if self._hashcode == -1"
HashTest(t) ==
    /\ threads[t].pc = "idle"
    /\ threads[t].calls < MaxCalls
    /\ threads' = [threads EXCEPT
                     ![t].pc = IF self.hashcode = HASH_UNSET THEN "compute"
                               ELSE "return",
                     ![t].calls = @ + 1,
                     ![t].exc = "", ![t].value = 0]
    /\ UNCHANGED <<inp, out, self, ret, host>>

\* "hash(self._getstate())": the value is held by the thread, or the call
\* ends with the exception.
HashCompute(t) ==
    /\ threads[t].pc = "compute"
    /\ LET h == hash_getstate(self, host)
       IN  threads' = [threads EXCEPT
                         ![t].pc = IF h.exc # "" THEN "raised" ELSE "store",
                         ![t].local = h.value,
                         ![t].exc = h.exc]
    /\ UNCHANGED <<inp, out, self, ret, host>>

\* "self._hashcode = ..."
HashStore(t) ==
    /\ threads[t].pc = "store"
    /\ self' = [self EXCEPT !.hashcode = threads[t].local]
    /\ threads' = [threads EXCEPT ![t].pc = "return"]
    /\ UNCHANGED <<inp, out, ret, host>>

\* "return self._hashcode"
HashReturn(t) ==
    /\ threads[t].pc = "return"
    /\ threads' = [threads EXCEPT ![t].pc = "returned",
                                  ![t].value = self.hashcode]
    /\ UNCHANGED <<inp, out, self, ret, host>>

\* The caller has the outcome and may call again.
HashDone(t) ==
    /\ threads[t].pc \in {"returned", "raised"}
    /\ threads' = [threads EXCEPT ![t].pc = "idle"]
    /\ UNCHANGED <<inp, out, self, ret, host>>

NextThreads ==
    \E t \in Threads :
        HashTest(t) \/ HashCompute(t) \/ HashStore(t) \/ HashReturn(t)
        \/ HashDone(t)

SpecThreads == InitThreads /\ [][NextThreads]_vars

(***************************************************************************)
(* Properties of SymmetricDate                                             *)
(***************************************************************************)
\* The validity of constructor arguments, as the data model states it.
ValidFields(year, month, day, holocene) ==
    /\ year \in MINYEAR..(IF holocene THEN HOLOCENE_MAXYEAR ELSE MAXYEAR)
    /\ month \in 1..12
    /\ day >= 1
    /\ day <= (IF month = 12 /\ is_leap(year, holocene) # 0 THEN 35
               ELSE DAYS_IN_MONTH[month])

NewWith(year, month, day, holocene) ==
    /\ ret.op = "new"
    /\ ret.year = year /\ ret.month = month /\ ret.day = day
    /\ ret.holocene = holocene

\* C5: the constructor returns a date exactly when the year is within the
\* era bounds, the month in 1..12 and the day in 1..days_in_month; the date
\* holds the fields as given (nothing is clamped); otherwise it raises
\* ValueError and no date exists.  (2004,12,33) is valid, (2004,12,36) is not.
C5_ConstructionValidates ==
    /\ ret.op = "new" =>
          IF ValidFields(ret.year, ret.month, ret.day, ret.holocene)
          THEN /\ ret.exc = ""
               /\ ret.value.is_date
               /\ ret.value.year = ret.year
               /\ ret.value.month = ret.month
               /\ ret.value.day = ret.day
               /\ ret.value.holocene = ret.holocene
               /\ self = ret.value
          ELSE /\ ret.exc = "ValueError"
               /\ ~ret.value.is_date
               /\ ~self.is_date
    /\ NewWith(2004, 12, 33, FALSE) => ret.exc = ""
    /\ NewWith(2004, 12, 36, FALSE) => ret.exc = "ValueError"

\* The 33rd of December of the leap year 2004, constructed.
C5_Witness ==
    /\ NewWith(2004, 12, 33, FALSE)
    /\ self.is_date /\ self.day = 33 /\ self.is_leap # 0

\* C6: self + timedelta(n) is the date of ordinal toordinal() + n when that
\* lies in 1..MAXORDINAL and raises OverflowError otherwise; self -
\* timedelta(n) is self + timedelta(-n).
C6_DayArithmetic ==
    ret.op \in {"add", "sub"} =>
        LET n == IF ret.op = "add" THEN ret.days ELSE -ret.days
            o == toordinal(self) + n
        IN  IF o \in 1..MAXORDINAL
            THEN /\ ret.exc = ""
                 /\ ret.value.is_date
                 /\ ret.value.ordinal_date = o
            ELSE ret.exc = "OverflowError"

\* C7 as claimed: fromordinal raises OverflowError (the range error) for an
\* ordinal outside 1..MAXORDINAL.
C7_FromOrdinalRangeError ==
    (ret.op = "fromordinal" /\ ret.ordinal_date \notin 1..MAXORDINAL) =>
        (ret.exc = "OverflowError" /\ ~ret.value.is_date)

\* C7 amended: for an ordinal outside 1..MAXORDINAL fromordinal returns no
\* date; it raises, and what it raises is not the range error: in the default
\* era it is the ValueError of the field validation.
C7_FromOrdinalRejects ==
    (ret.op = "fromordinal" /\ ret.ordinal_date \notin 1..MAXORDINAL) =>
        /\ ~ret.value.is_date
        /\ ~self.is_date
        /\ ret.exc # ""
        /\ ret.exc # "OverflowError"
        /\ ~ret.holocene => ret.exc = "ValueError"

\* The first ordinal past the default era, rejected.
C7_Witness ==
    /\ ret.op = "fromordinal" /\ ~ret.holocene
    /\ ret.ordinal_date = MAXORDINAL + 1
    /\ ret.exc = "ValueError"

\* C8: == and < are decided by the ordinals alone, and hash() returns, for
\* every date, a value that is a function of the ordinal.
C8_OrdinalKeyed ==
    /\ (ret.op = "compare" /\ ret.operator = "eq") =>
          (ret.result <=> (toordinal(self) = toordinal(ret.other)))
    /\ (ret.op = "compare" /\ ret.operator = "lt") =>
          (ret.result <=> (toordinal(self) < toordinal(ret.other)))
    /\ ret.op = "hash" =>
          (ret.exc = "" /\ ret.value = host_state_hash(toordinal(self)))

\* C10: fromordinal(o, holocene=True) returns the Holocene date of ordinal o;
\* converting a default-era date to the Holocene era adds 10000 to the year
\* and keeps month, day and ordinal; converting a Holocene date of a year in
\* 10001..19998 to the default era subtracts 10000 and keeps the rest.
C10_EraConversion ==
    /\ (ret.op = "fromordinal" /\ ret.holocene
          /\ ret.ordinal_date \in HOLOCENE_EPOCH..MAXORDINAL) =>
          /\ ret.exc = ""
          /\ ret.value.holocene
          /\ ret.value.ordinal_date = ret.ordinal_date
    /\ (ret.op = "convert" /\ ~self.holocene /\ ret.holocene) =>
          /\ ret.exc = ""
          /\ ret.value.holocene
          /\ ret.value.year = self.year + HOLOCENE_OFFSET
          /\ ret.value.month = self.month /\ ret.value.day = self.day
          /\ ret.value.ordinal_date = self.ordinal_date
    /\ (ret.op = "convert" /\ self.holocene /\ ~ret.holocene
          /\ self.year \in HOLOCENE_HOST_MINYEAR..HOLOCENE_MAXYEAR) =>
          /\ ret.exc = ""
          /\ ~ret.value.holocene
          /\ ret.value.year = self.year - HOLOCENE_OFFSET
          /\ ret.value.month = self.month /\ ret.value.day = self.day
          /\ ret.value.ordinal_date = self.ordinal_date

\* C11: replace on a date returns a new date holding the receiver's fields
\* with the given ones overridden, in the receiver's era, with the ordinal
\* and the leap flag computed from the new fields; when the new fields are
\* not valid it raises ValueError and returns nothing; the receiver is the
\* same before and after the call.
C11_Replace ==
    [][ret'.op = "replace" =>
         LET year == IF ret'.year.given THEN ret'.year.v ELSE self.year
             month == IF ret'.month.given THEN ret'.month.v ELSE self.month
             day == IF ret'.day.given THEN ret'.day.v ELSE self.day
         IN  /\ self' = self
             /\ IF ValidFields(year, month, day, self.holocene)
                THEN /\ ret'.exc = ""
                     /\ ret'.value.is_date
                     /\ ret'.value.year = year
                     /\ ret'.value.month = month
                     /\ ret'.value.day = day
                     /\ ret'.value.holocene = self.holocene
                     /\ ret'.value.ordinal_date =
                          year_month_day_to_ordinal(year, month, day,
                                                    self.holocene).ordinal_date
                     /\ ret'.value.is_leap = is_leap(year, self.holocene)
                ELSE /\ ret'.exc = "ValueError"
                     /\ ~ret'.value.is_date]_vars

\* replace(year=2005) on the 33rd of December 2004 has raised, and the
\* receiver is still that day.
C11_Witness ==
    /\ ret.op = "replace"
    /\ ret.year = Given(2005) /\ ~ret.month.given /\ ~ret.day.given
    /\ ret.exc = "ValueError"
    /\ self.year = 2004 /\ self.month = 12 /\ self.day = 33 /\ ~self.holocene

\* A constructed date that has a host date: any default-era date, and a
\* Holocene date of year 10001 or later.
HostMapped(date) == ~date.holocene \/ date.year >= HOLOCENE_HOST_MINYEAR

\* C12 as claimed: a date that should have a host date has the one of its own
\* ordinal; a Holocene date of a year in 1..10000 constructs, and every member
\* that needs the host date fails before the host date is used, with an
\* error of another kind than the ValueError of invalid fields.
C12_HostMappingGate ==
    /\ (self.is_date /\ HostMapped(self)) =>
          self.gregorian_date = self.ordinal_date
    /\ (ret.op = "new" /\ ret.holocene /\ ret.year < HOLOCENE_HOST_MINYEAR
          /\ ValidFields(ret.year, ret.month, ret.day, TRUE)) =>
          (ret.exc = "" /\ self.is_date)
    /\ (ret.op = "delegate" /\ ~HostMapped(self)) =>
          /\ ret.exc # ""
          /\ ~ret.reached_host
          /\ ret.exc # "ValueError"

\* C12 amended: as above, but the error of the gate is a ValueError, the
\* exception that invalid fields raise as well; and on a date that has a host
\* date every such member returns what the host date of the same ordinal
\* gives.
C12_HostMappingGateValueError ==
    /\ (self.is_date /\ HostMapped(self)) =>
          self.gregorian_date = self.ordinal_date
    /\ (ret.op = "new" /\ ret.holocene /\ ret.year < HOLOCENE_HOST_MINYEAR
          /\ ValidFields(ret.year, ret.month, ret.day, TRUE)) =>
          (ret.exc = "" /\ self.is_date /\ self.gregorian_date = GREGORIAN_NONE)
    /\ (ret.op = "delegate" /\ ~HostMapped(self)) =>
          /\ ret.exc = "ValueError"
          /\ ~ret.reached_host
    /\ (ret.op = "delegate" /\ HostMapped(self)) =>
          /\ ret.exc = ""
          /\ ret.value.host_date = self.ordinal_date

\* ctime() called on the first day of Holocene year 10000 has raised.
C12_Witness ==
    /\ ret.op = "delegate" /\ ret.member = "ctime"
    /\ self.holocene /\ self.year = HOLOCENE_OFFSET
    /\ self.month = 1 /\ self.day = 1
    /\ ret.exc = "ValueError"

\* The weekday of the host date of ordinal n, Monday = 0 .. Sunday = 6, and
\* its ISO weekday, Monday = 1 .. Sunday = 7.  Ordinal 1 is a Monday.
HostWeekday(n) == (n + 6) % 7
HostIsoWeekday(n) == IF n % 7 = 0 THEN 7 ELSE n % 7

\* C16: for a date whose ordinal the host can represent, weekday() is the
\* host weekday of that ordinal (Monday = 0 .. Sunday = 6) and isoweekday()
\* is the host ISO weekday (Monday = 1 .. Sunday = 7).
C16_WeekdayAgreement ==
    (ret.op = "weekday" /\ self.ordinal_date \in 1..HOST_MAXORDINAL) =>
        /\ ret.method = "weekday" =>
              ret.value = HostWeekday(self.ordinal_date)
        /\ ret.method = "isoweekday" =>
              /\ ret.value \in 1..7
              /\ ret.value = HostIsoWeekday(self.ordinal_date)

\* C17: whatever the threads do, every step leaves year, month, day, era,
\* leap flag and ordinal of the date as they are, and the ordinal is the
\* encoding of the fields; the hash memo changes only from the unset
\* sentinel to the hash value, never again; and every hash() call that has
\* ended has returned that value.
C17_ImmutableWithMemo ==
    [][/\ self'.year = self.year /\ self'.month = self.month
       /\ self'.day = self.day /\ self'.holocene = self.holocene
       /\ self'.is_leap = self.is_leap
       /\ self'.ordinal_date = self.ordinal_date
       /\ self'.ordinal_date =
             year_month_day_to_ordinal(self'.year, self'.month, self'.day,
                                       self'.holocene).ordinal_date
       /\ self'.hashcode # self.hashcode =>
             /\ self.hashcode = HASH_UNSET
             /\ self'.hashcode = host_state_hash(self.gregorian_date)
       /\ \A t \in Threads :
             threads'[t].pc \in {"returned", "raised"} =>
                /\ threads'[t].exc = ""
                /\ threads'[t].value # HASH_UNSET
                /\ threads'[t].value = self'.hashcode]_vars

\* The memo discipline that holds on either host: the fields never change,
\* the memo is written only with the one hash value, a call that returns,
\* returns it, and a call that raises leaves the memo unset.
MemoWhereHashReturns ==
    [][/\ self'.year = self.year /\ self'.month = self.month
       /\ self'.day = self.day /\ self'.holocene = self.holocene
       /\ self'.is_leap = self.is_leap
       /\ self'.ordinal_date = self.ordinal_date
       /\ self'.hashcode # self.hashcode =>
             /\ self.hashcode = HASH_UNSET
             /\ self'.hashcode = host_state_hash(self.gregorian_date)
       /\ \A t \in Threads :
             /\ threads'[t].pc = "returned" =>
                   /\ threads'[t].value # HASH_UNSET
                   /\ threads'[t].value = self'.hashcode
             /\ threads'[t].pc = "raised" =>
                   self'.hashcode = HASH_UNSET]_vars

\* Day arithmetic and the era: where self + timedelta(n) or
\* self - timedelta(n) has returned a date, that date is of the era of self
\* and its ordinal is the ordinal of self plus or minus n.  No call returns
\* (timedelta_is_bound is FALSE), so this holds of every reachable state
\* without any returned date to show it on.
EraPreservedWhereReturned ==
    (ret.op \in {"add", "sub"} /\ ret.exc = "") =>
        /\ ret.value.is_date
        /\ ret.value.holocene = self.holocene
        /\ ret.value.ordinal_date =
             toordinal(self) + (IF ret.op = "add" THEN ret.days ELSE -ret.days)

\* Every self + timedelta(n) and self - timedelta(n) raises NameError.
NoArithmeticReturns ==
    ret.op \in {"add", "sub"} => (ret.exc = "NameError" /\ ~ret.value.is_date)

(***************************************************************************)
(* SymmetricDateTime, date_time.py                                         *)
(*                                                                         *)
(* A host time is the record of its hour, minute, second, microsecond,     *)
(* tzinfo and fold.  A tzinfo is a fixed-offset timezone of the host,      *)
(* represented by its UTC offset in minutes.                               *)
(***************************************************************************)
SECONDS_PER_DAY == 86400
MICROSECONDS_PER_SECOND == 1000000
\* A double keeps 52 binary digits after the leading one.
FLOAT_MANTISSA_BITS == 52
\* The largest power of two below the largest timestamp is 2^37 s, and the
\* largest below one microsecond is 2^-20 s.
FLOAT_MAX_EXPONENT == 37
FLOAT_MIN_EXPONENT == -20
\* 86400 = 2^7 * 675
DAY_ODD_PART == 675

\* The instant of a host datetime with a tzinfo, as the host computes
\* self - _EPOCH: whole days since 1970-01-01 UTC, second of the day,
\* microsecond.
host_instant(g, time) ==
    [day |-> g - POSIX_EPOCH
             + FloorDiv(time.hour * 3600 + time.minute * 60 + time.second
                        - time.tzinfo * 60, SECONDS_PER_DAY),
     second |-> (time.hour * 3600 + time.minute * 60 + time.second
                 - time.tzinfo * 60) % SECONDS_PER_DAY,
     microsecond |-> time.microsecond]

\* The absolute value of an instant, as days, seconds and microseconds.
instant_magnitude(i) ==
    IF i.day >= 0 THEN i
    ELSE IF i.microsecond > 0
    THEN [day |-> -i.day - 1,
          second |-> SECONDS_PER_DAY - i.second - 1,
          microsecond |-> MICROSECONDS_PER_SECOND - i.microsecond]
    ELSE IF i.second > 0
    THEN [day |-> -i.day - 1, second |-> SECONDS_PER_DAY - i.second,
          microsecond |-> 0]
    ELSE [day |-> -i.day, second |-> 0, microsecond |-> 0]

\* Whether a magnitude is at least 2^k seconds, for k in
\* FLOAT_MIN_EXPONENT..FLOAT_MAX_EXPONENT.
AtLeastPowerOfTwo(m, k) ==
    IF k >= 7
    THEN \/ m.day > (2^(k - 7)) \div DAY_ODD_PART
         \/ /\ m.day = (2^(k - 7)) \div DAY_ODD_PART
            /\ m.second >= ((2^(k - 7)) % DAY_ODD_PART) * 128
    ELSE IF k >= 0
    THEN m.day > 0 \/ m.second >= 2^k
    ELSE \/ m.day > 0
         \/ m.second > 0
         \/ m.microsecond >= (MICROSECONDS_PER_SECOND + 2^(-k) - 1) \div 2^(-k)

\* The binary exponent of the double of a magnitude other than zero: the
\* largest k with 2^k at most the magnitude.
float_exponent(m) ==
    FLOAT_MIN_EXPONENT
    + Cardinality({k \in (FLOAT_MIN_EXPONENT + 1)..FLOAT_MAX_EXPONENT :
                      AtLeastPowerOfTwo(m, k)})

\* The number of binary digits a double keeps after the binary point for a
\* value of the given magnitude.
float_fraction_bits(m) == FLOAT_MANTISSA_BITS - float_exponent(m)

\* The first n binary digits after the point of rest / 10^6, after the
\* digits given, and what remains of the numerator.
RECURSIVE binary_expansion(_, _, _)
binary_expansion(digits, rest, n) ==
    IF n = 0 THEN [digits |-> digits, rest |-> rest]
    ELSE binary_expansion(Append(digits, (2 * rest) \div MICROSECONDS_PER_SECOND),
                          (2 * rest) % MICROSECONDS_PER_SECOND, n - 1)

\* The last place of the digits that holds the digit given, 0 if none does.
last_place(digits, digit) ==
    IF \E k \in 1..Len(digits) : digits[k] = digit
    THEN CHOOSE k \in 1..Len(digits) :
            /\ digits[k] = digit
            /\ \A l \in (k + 1)..Len(digits) : digits[l] # digit
    ELSE 0

\* One unit in the last place more; carry is 1 where that is a whole second.
digits_increment(digits) ==
    IF last_place(digits, 0) = 0 THEN [digits |-> <<>>, carry |-> 1]
    ELSE [digits |-> [k \in 1..Len(digits) |->
                         IF k < last_place(digits, 0) THEN digits[k]
                         ELSE IF k = last_place(digits, 0) THEN 1
                         ELSE 0],
          carry |-> 0]

\* Binary digits without the zeros at their end.
digits_strip(digits) == SubSeq(digits, 1, last_place(digits, 1))

\* microsecond / 10^6 rounded to the nearest multiple of 2^-bits, ties to
\* even, for bits >= 1: its binary digits after the point and its carry into
\* the seconds.
round_fraction_expanded(e) ==
    IF \/ 2 * e.rest > MICROSECONDS_PER_SECOND
       \/ 2 * e.rest = MICROSECONDS_PER_SECOND /\ e.digits[Len(e.digits)] = 1
    THEN digits_increment(e.digits)
    ELSE [digits |-> e.digits, carry |-> 0]

round_fraction(microsecond, bits) ==
    round_fraction_expanded(binary_expansion(<<>>, microsecond, bits))

\* The carry of a fraction that rounded up to a whole second.
float_carry(day, second, rounded) ==
    IF rounded.carry = 0
    THEN [day |-> day, second |-> second,
          fraction |-> digits_strip(rounded.digits)]
    ELSE IF second + 1 < SECONDS_PER_DAY
    THEN [day |-> day, second |-> second + 1, fraction |-> <<>>]
    ELSE [day |-> day + 1, second |-> 0, fraction |-> <<>>]

\* timedelta.total_seconds(): the microseconds of the instant divided by
\* 10^6 as a double, which is the quotient rounded to 53 significant bits.
\* The double is represented exactly, by the days and seconds of its floor
\* and the binary digits after the point of what it has above its floor,
\* without the zeros at their end.
total_seconds(i) ==
    IF i.microsecond = 0
    THEN [day |-> i.day, second |-> i.second, fraction |-> <<>>]
    ELSE float_carry(i.day, i.second,
                     round_fraction(i.microsecond,
                                    float_fraction_bits(instant_magnitude(i))))

\* SymmetricDateTime.timestamp: the host datetime of the Gregorian date, the
\* time and the tzinfo, and its timestamp().
timestamp(dt) ==
    LET g == gregorian_date(dt.date)
    IN  IF g.exc # "" THEN Raise(g.exc)
        ELSE Return(total_seconds(host_instant(g.date,
                        [dt.time EXCEPT !.tzinfo = dt.tzinfo])))

\* The order of two fractions given by their binary digits.
RECURSIVE digits_cmp(_, _)
digits_cmp(a, b) ==
    IF a = b THEN 0
    ELSE IF a = <<>> THEN -1
    ELSE IF b = <<>> THEN 1
    ELSE IF Head(a) > Head(b) THEN 1
    ELSE IF Head(a) < Head(b) THEN -1
    ELSE digits_cmp(Tail(a), Tail(b))

\* this_timestamp == other_timestamp, this_timestamp > other_timestamp
float_cmp(a, b) ==
    IF a = b THEN 0
    ELSE IF \/ a.day > b.day
            \/ a.day = b.day /\ a.second > b.second
            \/ a.day = b.day /\ a.second = b.second
               /\ digits_cmp(a.fraction, b.fraction) > 0
    THEN 1
    ELSE -1

\* SymmetricDateTime._cmp
datetime_cmp(a, b) == float_cmp(timestamp(a).value, timestamp(b).value)

\* SymmetricDateTime.__eq__, __le__, __lt__, __ge__, __gt__ against another
\* SymmetricDateTime.
datetime_rich_compare(operator, a, b) ==
    CASE operator = "eq" -> datetime_cmp(a, b) = 0
      [] operator = "le" -> datetime_cmp(a, b) <= 0
      [] operator = "lt" -> datetime_cmp(a, b) < 0
      [] operator = "ge" -> datetime_cmp(a, b) >= 0
      [] operator = "gt" -> datetime_cmp(a, b) > 0

\* datetime.time(hour, minute, second, microsecond, tzinfo, fold=fold) of
\* the host library.
host_time(hour, minute, second, microsecond, tzinfo, fold) ==
    IF /\ hour \in 0..23 /\ minute \in 0..59 /\ second \in 0..59
       /\ microsecond \in 0..(MICROSECONDS_PER_SECOND - 1) /\ fold \in 0..1
    THEN Return([hour |-> hour, minute |-> minute, second |-> second,
                 microsecond |-> microsecond, tzinfo |-> tzinfo, fold |-> fold])
    ELSE Raise("ValueError")

\* What __new__ assembles once the date and the time exist.
datetime_of(d, t) ==
    [is_date |-> TRUE, date |-> d,
     year |-> d.year, month |-> d.month, day |-> d.day,
     hashcode |-> HASH_UNSET,
     gregorian_date |-> gregorian_date(d).date,
     holocene |-> d.holocene,
     is_leap |-> d.is_leap # 0,
     time |-> t,
     hour |-> t.hour, minute |-> t.minute, second |-> t.second,
     microsecond |-> t.microsecond, tzinfo |-> t.tzinfo, fold |-> t.fold,
     gregorian_date_time |-> [date |-> gregorian_date(d).date, time |-> t]]

\* SymmetricDateTime.__new__ with integer fields: the date is built by
\* SymmetricDate(year, month, day), in the default era.
new_datetime(year, month, day, hour, minute, second, microsecond, tzinfo, fold) ==
    IF new(year, month, day, FALSE).exc # ""
    THEN Raise(new(year, month, day, FALSE).exc)
    ELSE IF gregorian_date(new(year, month, day, FALSE).value).exc # ""
    THEN Raise(gregorian_date(new(year, month, day, FALSE).value).exc)
    ELSE IF host_time(hour, minute, second, microsecond, tzinfo, fold).exc # ""
    THEN Raise(host_time(hour, minute, second, microsecond, tzinfo, fold).exc)
    ELSE Return(datetime_of(new(year, month, day, FALSE).value,
                   host_time(hour, minute, second, microsecond, tzinfo,
                             fold).value))

\* SymmetricDateTime.combine(date, time, tzinfo=True) with a SymmetricDate.
combine(date, time, tzinfo) ==
    new_datetime(date.year, date.month, date.day,
                 time.hour, time.minute, time.second, time.microsecond,
                 IF tzinfo.given THEN tzinfo.v ELSE time.tzinfo,
                 time.fold)

(***************************************************************************)
(* Date-time specification: one SymmetricDateTime is constructed, from     *)
(* fields or by combine, then compared and taken apart.                    *)
(***************************************************************************)
\* Microseconds offered are 0..MaxMicrosecond.
MaxMicrosecond == 2

\* Year, month and day offered to the constructor: the first and the last
\* day of the default era, a day of a leap week, and that day a year later,
\* which does not exist.
DateTimeFields ==
    {<<MINYEAR, 1, 1>>, <<2004, 12, 33>>, <<2005, 12, 33>>, <<MAXYEAR, 12, 28>>}

\* Hours offered: two hours that two hours of offset set apart; the earlier
\* one, midnight, falls on the day before when of the later offset.
HourInputs == {0, 2}

\* UTC offsets offered, in minutes.
OffsetInputs == {0, 120}

TimeInputs ==
    [hour : HourInputs, minute : {0}, second : {0},
     microsecond : 0..MaxMicrosecond, tzinfo : OffsetInputs, fold : {0, 1}]

\* The dates given to combine: valid dates of both eras, among them Holocene
\* dates with and without a host date.
CombineDates ==
    {r.value : r \in {m \in {new(f[1], f[2], f[3], FALSE) : f \in DateTimeFields}
                            \cup {new(y, 12, 28, TRUE) : y \in {5, 12004}}
                          : m.exc = ""}}

\* The date-times a date-time is compared with: the same day at every hour,
\* microsecond and offset offered.
DateTimeOthers(dt) ==
    {datetime_of(dt.date, t) : t \in {u \in TimeInputs : u.fold = 0}}

InitDateTime ==
    /\ inp = [kind |-> "none"]
    /\ out = NoOut
    /\ self = None
    /\ ret = NoRet
    /\ host = "c"
    /\ threads = NoThreads

\* SymmetricDateTime(year, month, day, hour, minute, second, microsecond, tzinfo)
NewDateTime ==
    /\ ret.op = "none"
    /\ \E f \in DateTimeFields, t \in {u \in TimeInputs : u.fold = 0} :
         LET r == new_datetime(f[1], f[2], f[3], t.hour, t.minute, t.second,
                               t.microsecond, t.tzinfo, t.fold)
         IN  /\ self' = r.value
             /\ inp' = [kind |-> "new_datetime", date |-> f, time |-> t]
             /\ ret' = [op |-> "new_datetime", exc |-> r.exc, value |-> r.value]
    /\ UNCHANGED <<out, host, threads>>

\* SymmetricDateTime.combine(date, time) and combine(date, time, tzinfo)
Combine ==
    /\ ret.op = "none"
    /\ \E date \in CombineDates, time \in TimeInputs,
          tzinfo \in {Absent, Given(0)} :
         LET r == combine(date, time, tzinfo)
         IN  /\ self' = r.value
             /\ inp' = [kind |-> "combine", date |-> date, time |-> time,
                        tzinfo |-> tzinfo]
             /\ ret' = [op |-> "combine", exc |-> r.exc, value |-> r.value]
    /\ UNCHANGED <<out, host, threads>>

\* self.date and self.time
Decompose ==
    /\ self.is_date
    /\ ret' = [op |-> "decompose", exc |-> "",
               date |-> self.date, time |-> self.time]
    /\ UNCHANGED <<inp, out, self, host, threads>>

\* self == other, self <= other, self < other, self >= other, self > other
CompareDateTime ==
    /\ self.is_date
    /\ \E operator \in Operators, other \in DateTimeOthers(self) :
         ret' = [op |-> "compare", operator |-> operator, other |-> other,
                 exc |-> "",
                 result |-> datetime_rich_compare(operator, self, other)]
    /\ UNCHANGED <<inp, out, self, host, threads>>

NextDateTime == NewDateTime \/ Combine \/ Decompose \/ CompareDateTime

SpecDateTime == InitDateTime /\ [][NextDateTime]_vars

(***************************************************************************)
(* Properties of SymmetricDateTime                                         *)
(***************************************************************************)
\* The instant a date-time denotes: its date's ordinal and time of day less
\* its UTC offset, exact to the microsecond.
Instant(dt) ==
    host_instant(dt.date.ordinal_date, [dt.time EXCEPT !.tzinfo = dt.tzinfo])

InstantCmp(a, b) ==
    IF a = b THEN 0
    ELSE IF \/ a.day > b.day
            \/ a.day = b.day /\ a.second > b.second
            \/ a.day = b.day /\ a.second = b.second
               /\ a.microsecond > b.microsecond
    THEN 1
    ELSE -1

\* C13: two date-times are equal exactly when their instants are equal, and
\* <, <=, >, >= order them by their instants.
C13_InstantEquality ==
    ret.op = "compare" =>
        ret.result =
           (CASE ret.operator = "eq" -> InstantCmp(Instant(self), Instant(ret.other)) = 0
              [] ret.operator = "le" -> InstantCmp(Instant(self), Instant(ret.other)) <= 0
              [] ret.operator = "lt" -> InstantCmp(Instant(self), Instant(ret.other)) < 0
              [] ret.operator = "ge" -> InstantCmp(Instant(self), Instant(ret.other)) >= 0
              [] ret.operator = "gt" -> InstantCmp(Instant(self), Instant(ret.other)) > 0)

\* C14: combine(d, t) of a valid date of either era and a time succeeds, and
\* its date and time are the ones given: same year, month, day, era and
\* ordinal, same hour, minute, second, microsecond, offset and fold.
C14_CombineRoundTrip ==
    /\ (ret.op = "combine" /\ ~inp.tzinfo.given) =>
          /\ ret.exc = ""
          /\ self.is_date
    /\ (ret.op = "decompose" /\ inp.kind = "combine" /\ ~inp.tzinfo.given) =>
          /\ ret.date.year = inp.date.year
          /\ ret.date.month = inp.date.month
          /\ ret.date.day = inp.date.day
          /\ ret.date.holocene = inp.date.holocene
          /\ ret.date.ordinal_date = inp.date.ordinal_date
          /\ ret.time = inp.time

====
